---- MODULE Spec2Model ----
(***************************************************************************)
(* A model of the analysis pipeline of code_analyzer.py: the per-file     *)
(* tasks started by process_files, the semaphore and the AsyncLimiter     *)
(* every inference call passes, the content cache, and the calls main()   *)
(* makes after the files are done.  load_cache, split_content and the    *)
(* directory scan of call_graph.py (process_directory, extract_calls) are *)
(* also followed on their own, over inputs drawn from bounded sets, and   *)
(* one specification lets the run be terminated from outside.             *)
(*                                                                         *)
(* Text is modelled by its shape.  A file's content is the sequence of    *)
(* the lengths of the pieces content.split('\n') yields; an analysis text *)
(* is the sequence of its "## Chunk i Analysis" sections.  Time is in     *)
(* seconds and the limiter's level is kept multiplied by TIME_PERIOD so   *)
(* that it stays an integer.                                              *)
(***************************************************************************)
EXTENDS Integers, Sequences, FiniteSets, TLC

(* ---------------- program constants ---------------- *)
CALLS_PER_MINUTE == 5
MAX_CONCURRENT_CALLS == 5
TIME_PERIOD == 60
MAX_CHARS == 70000
CHUNK_SIZE == 50

(* ---------------- bounds of the model ---------------- *)
NumFiles == 2
GateFiles == 6
GateTicks == 4
RateFiles == 20
RateTicks == 18
TickSeconds == 12
MaxTicks == 1
MaxLines == 3
MaxLineLen == 3
MaxBudget == 4
LoadPaths == 2
CrashFiles == 3
DirFiles == 2
BatchFiles == 51
BatchTicks == 1
MaxRuns == 2
RerunFiles == 2
RerunTicks == 1
LiveFiles == 6
LiveTicks == 1
CrashTicks == 1

(* ---------------- helpers ---------------- *)
RECURSIVE SumSeq(_)
SumSeq(s) == IF s = <<>> THEN 0 ELSE Head(s) + SumSeq(Tail(s))

\* len(text) of a text given by its lines: every line is followed by '\n'
ChunkLen(lines) == SumSeq(lines) + Len(lines)

\* len(content): the pieces of split('\n') are joined by a single '\n'
TextLen(lines) == SumSeq(lines) + Len(lines) - 1

(* ---------------- split_content ---------------- *)
\* a loop that compares the chunk alone with the budget, without the line
RECURSIVE SplitLoop_nolen(_, _, _, _)
SplitLoop_nolen(lines, current_chunk, chunks, max_chars) ==
    IF lines = <<>>
    THEN IF current_chunk # <<>> THEN Append(chunks, current_chunk) ELSE chunks
    ELSE IF ChunkLen(current_chunk) > max_chars
         THEN SplitLoop_nolen(Tail(lines), <<Head(lines)>>,
                              Append(chunks, current_chunk), max_chars)
         ELSE SplitLoop_nolen(Tail(lines), Append(current_chunk, Head(lines)),
                              chunks, max_chars)

\* The loop of split_content over the remaining lines; a chunk is the
\* sequence of the lines (by length) it holds, "" is the empty sequence.
RECURSIVE SplitLoop(_, _, _, _)
SplitLoop(lines, current_chunk, chunks, max_chars) ==
    IF lines = <<>>
    THEN IF current_chunk # <<>> THEN Append(chunks, current_chunk) ELSE chunks
    ELSE IF ChunkLen(current_chunk) + Head(lines) > max_chars
         THEN SplitLoop(Tail(lines), <<Head(lines)>>,
                        Append(chunks, current_chunk), max_chars)
         ELSE SplitLoop(Tail(lines), Append(current_chunk, Head(lines)),
                        chunks, max_chars)

\* a split that returns without the chunk still being filled
split_content_unflushed(lines, max_chars) ==
    LET chunks == SplitLoop(lines, <<>>, <<>>, max_chars)
    IN  SubSeq(chunks, 1, Len(chunks) - 1)

split_content(lines, max_chars) == SplitLoop(lines, <<>>, <<>>, max_chars)

(* ---------------- files and their content ---------------- *)
\* The contents a file can have.  ContentA and ContentC are different texts
\* of the same length; ContentB splits into two chunks.
ContentA == [lines |-> <<10>>, imports |-> <<"os">>, functions |-> <<"f">>,
             classes |-> <<>>]
ContentB == [lines |-> <<MAX_CHARS, MAX_CHARS>>, imports |-> <<"os", "re">>,
             functions |-> <<"g">>, classes |-> <<"K">>]
ContentC == [lines |-> <<4, 5>>, imports |-> <<>>, functions |-> <<"f", "g">>,
             classes |-> <<>>]
Contents == {ContentA, ContentB, ContentC}

\* The digest of a text.  hashlib.md5 is a fixed function of the text that is
\* not injective; the model keeps both facts: the digest is the text's length.
file_hash(c) == TextLen(c.lines)

\* os.path.splitext(file_path)[1] of the discovered files, in discovery order
Extensions == <<".py", ".js", ".cpp">>
Ext(f) == Extensions[((f - 1) % Len(Extensions)) + 1]

get_file_type(f) ==
    CASE Ext(f) = ".py"  -> "Python"
      [] Ext(f) = ".js"  -> "JavaScript"
      [] Ext(f) = ".cpp" -> "C++"
      [] OTHER -> "Unknown"

\* extract_imports_and_functions: the lists of names found in the content
extract_imports_and_functions(c) ==
    [imports |-> c.imports, functions |-> c.functions, classes |-> c.classes]

(* ---------------- texts ---------------- *)
\* result['choices'][0]['message']['content'] of a successful call: the
\* service's answer to the request sent for chunk idx of file f
Reply(f, idx, chunk) == [kind |-> "reply", path |-> f, idx |-> idx,
                         about |-> chunk, cause |-> ""]

\* "Analysis failed for chunk {i+1} due to ..."
FailureNote(idx, cause) == [kind |-> "failed", path |-> 0, idx |-> idx,
                            about |-> <<>>, cause |-> cause]

\* notes that do not say which chunk failed
OutcomeText_unnumbered(kind, f, idx, chunk) ==
    CASE kind = "ok"        -> Reply(f, idx, chunk)
      [] kind = "structure" -> FailureNote(0, "unexpected API response structure")
      [] kind = "status"    -> FailureNote(0, "API error")
      [] kind = "exception" -> FailureNote(0, "exception")

\* what a response of the given kind appends to the list of analyses
OutcomeText(kind, f, idx, chunk) ==
    CASE kind = "ok"        -> Reply(f, idx, chunk)
      [] kind = "structure" -> FailureNote(idx, "unexpected API response structure")
      [] kind = "status"    -> FailureNote(idx, "API error")
      [] kind = "exception" -> FailureNote(idx, "exception")

Outcomes == {"ok", "structure", "status", "exception"}

\* combined_analysis: the header line and one "## Chunk {i+1} Analysis"
\* section per element of chunk_analyses, in list order
CombineAnalyses(file_type, analyses) ==
    [header |-> file_type,
     sections |-> [k \in 1..Len(analyses) |-> [n |-> k, body |-> analyses[k]]]]

MakeResult(f, file_type, analysis) ==
    [file_path |-> f, file_type |-> file_type, analysis |-> analysis]

\* the result a run without failures produces for file f holding content c
CleanResult(f, c) ==
    LET chunks == split_content(c.lines, MAX_CHARS)
    IN  MakeResult(f, get_file_type(f),
          CombineAnalyses(get_file_type(f),
            [k \in 1..Len(chunks) |-> Reply(f, k, chunks[k])]))

(* ---------------- the cache file ---------------- *)
\* The cache file is missing, holds a JSON object ("map"), holds text that
\* is not JSON ("corrupt"), or holds JSON that is not an object ("other": a
\* list, a string, a number, null).  A value that is not a dict is a record
\* with the one field scalar.
\* load_cache: a missing or corrupted file gives {}; of a mapping, the
\* values that are a dict holding 'hash' and 'analysis' are kept
IsDict(v) == "scalar" \notin DOMAIN v

ValidEntry(v) == IsDict(v) /\ "hash" \in DOMAIN v /\ "analysis" \in DOMAIN v

load_cache(d) ==
    IF d.kind = "map"
    THEN [k \in {p \in DOMAIN d.entries : ValidEntry(d.entries[p])} |-> d.entries[k]]
    ELSE <<>>

\* cache.items() of a JSON value that is not an object raises AttributeError,
\* which load_cache does not catch
LoadRaises(d) == d.kind = "other"

\* save_cache: json.dump of the whole mapping over the file
save_cache(c) == [kind |-> "map", entries |-> c]

\* an update that keeps nothing but the entry it writes
CacheWith_only(c, f, h, result) ==
    [k \in {f} |-> [hash |-> h, analysis |-> result]]

\* update_cache: cache[file_path] = {...}, then save_cache(cache)
CacheWith(c, f, h, result) ==
    [k \in DOMAIN c \cup {f} |->
        IF k = f THEN [hash |-> h, analysis |-> result] ELSE c[k]]

\* the entries a cache file can hold for file f before a run
EntryWithoutFileType(f) ==
    [hash |-> file_hash(ContentA),
     analysis |-> [analysis |-> CleanResult(f, ContentA).analysis]]

StoredEntries(f) ==
    {[hash |-> file_hash(c), analysis |-> CleanResult(f, c)] :
        c \in {ContentA, ContentB}}
    \cup {EntryWithoutFileType(f)}

\* the mappings a cache file can hold for the files 1..n
RECURSIVE EntryMaps(_)
EntryMaps(n) ==
    IF n = 0 THEN {<<>>}
    ELSE LET rest == EntryMaps(n - 1)
         IN  rest \cup {[k \in DOMAIN m \cup {n} |-> IF k = n THEN e ELSE m[k]] :
                           m \in rest, e \in StoredEntries(n)}

CacheFiles(n) ==
    {[kind |-> "missing", entries |-> <<>>]}
    \cup {[kind |-> "map", entries |-> e] : e \in EntryMaps(n)}

\* the entries a cache file can hold for the path p when it is loaded on its
\* own: complete, or lacking a part, or not a dict
LoadEntries(p) ==
    LET whole == CleanResult(p, ContentA)
        h == file_hash(ContentA)
    IN  {[hash |-> h, analysis |-> whole],
         EntryWithoutFileType(p),
         [hash |-> h, analysis |-> [file_type |-> whole.file_type]],
         [hash |-> h, analysis |-> [scalar |-> "text"]],
         [analysis |-> whole],
         [hash |-> h],
         [scalar |-> "text"]}

RECURSIVE LoadMaps(_)
LoadMaps(n) ==
    IF n = 0 THEN {<<>>}
    ELSE LET rest == LoadMaps(n - 1)
         IN  rest \cup {[k \in DOMAIN m \cup {n} |-> IF k = n THEN e ELSE m[k]] :
                           m \in rest, e \in LoadEntries(n)}

\* the cache files load_cache can find
LoadFiles(n) ==
    {[kind |-> k, entries |-> <<>>] : k \in {"missing", "corrupt", "other"}}
    \cup {[kind |-> "map", entries |-> e] : e \in LoadMaps(n)}

(* ---------------- the two admission gates ---------------- *)
\* a semaphore that never turns a task away
SemLocked_never(value) == FALSE

\* asyncio.Semaphore.locked(): no slot is free
SemLocked(value) == value = 0

\* a bucket that never drips
Leak_never(lvl, checked, t) == lvl

\* a bucket that is empty at every check
Leak_all(lvl, checked, t) == 0

\* AsyncLimiter._leak: the level after the drip since the last check.  The
\* level is kept multiplied by TIME_PERIOD, so one second drips max_rate.
Leak(lvl, checked, t) ==
    IF lvl # 0
    THEN IF lvl - (t - checked) * CALLS_PER_MINUTE > 0
         THEN lvl - (t - checked) * CALLS_PER_MINUTE
         ELSE 0
    ELSE lvl

\* a limiter that finds room at every check
has_capacity_always(lvl) == TRUE

\* AsyncLimiter.has_capacity(1) on the leaked level
has_capacity(lvl) == lvl + TIME_PERIOD <= CALLS_PER_MINUTE * TIME_PERIOD

\* acquire() sleeps this long before it checks the capacity again
DripSeconds == TIME_PERIOD \div CALLS_PER_MINUTE

\* the admission times kept: the last CALLS_PER_MINUTE + 1
Remember(times, t) ==
    IF Len(times) <= CALLS_PER_MINUTE THEN Append(times, t)
    ELSE Append(Tail(times), t)

(* ---------------- the combined graph ---------------- *)
\* Node keys: <<f, "">> is the file node of f, <<0, imp>> the node of an
\* import, <<f, name>> the node "file_path::name" of a function or class.
\* an addition that keeps no edge but the one it adds
RECURSIVE AddAll_replace(_, _, _, _, _)
AddAll_replace(g, f, names, owner, type) ==
    IF names = <<>> THEN g
    ELSE LET node == <<owner, Head(names)>>
             g1 == [nodes |-> [k \in DOMAIN g.nodes \cup {node} |->
                                 IF k = node THEN type ELSE g.nodes[k]],
                    edges |-> {<<(<<f, "">>), node>>}]
         IN  AddAll_replace(g1, f, Tail(names), owner, type)

RECURSIVE AddAll(_, _, _, _, _)
AddAll(g, f, names, owner, type) ==
    IF names = <<>> THEN g
    ELSE LET node == <<owner, Head(names)>>
             g1 == [nodes |-> [k \in DOMAIN g.nodes \cup {node} |->
                                 IF k = node THEN type ELSE g.nodes[k]],
                    edges |-> g.edges \cup {<<(<<f, "">>), node>>}]
         IN  AddAll(g1, f, Tail(names), owner, type)

\* an update that adds nothing
update_graph_nothing(g, f, imports, functions, classes) == g

update_graph(g, f, imports, functions, classes) ==
    LET file == <<f, "">>
        g0 == [nodes |-> [k \in DOMAIN g.nodes \cup {file} |->
                            IF k = file THEN "file" ELSE g.nodes[k]],
               edges |-> g.edges]
        g1 == AddAll(g0, f, imports, 0, "import")
        g2 == AddAll(g1, f, functions, f, "function")
    IN  AddAll(g2, f, classes, f, "class")

(* ---------------- the syntax trees and extract_calls ---------------- *)
\* A node of the tree ast.parse returns: its class, its name (of a function
\* or class; of a call, the id of a callee that is a bare Name, "" when the
\* callee is anything else) and its children in the order of
\* ast.iter_child_nodes: for a FunctionDef the arguments, the statements of
\* the body, the decorators; for a ClassDef the bases, the statements of the
\* body, the decorators.
Node(type, name, children) ==
    [type |-> type, name |-> name, children |-> children]

Call(callee) == Node("Call", callee, <<>>)
Stmt(expr) == Node("Expr", "", <<expr>>)
Arguments == Node("arguments", "", <<>>)
Pass == Node("Pass", "", <<>>)

\* extract_calls: only the children of the node are looked at, and of them
\* only function definitions, calls and class definitions; None, the caller
\* at module level, is ""
RECURSIVE extract_calls(_, _), CallsOfChildren(_, _)
CallsOfChildren(children, current_function) ==
    IF children = <<>> THEN <<>>
    ELSE LET child == Head(children)
             calls ==
                CASE child.type = "FunctionDef" -> extract_calls(child, child.name)
                  [] child.type = "Call" ->
                        IF child.name # "" /\ current_function # ""
                        THEN << <<current_function, child.name>> >>
                        ELSE <<>>
                  [] child.type = "ClassDef" -> extract_calls(child, child.name)
                  [] OTHER -> <<>>
         IN  calls \o CallsOfChildren(Tail(children), current_function)

extract_calls(node, current_function) ==
    CallsOfChildren(node.children, current_function)

\* The source files a directory can hold.  A file has its extension, whether
\* ast.parse accepts it, its tree if so, and the names
\* extract_imports_and_functions finds in it, by ast.walk if it parses and by
\* the patterns if not.
\*   def f():
\*       g()
FileFCallsG ==
    [ext |-> ".py", parsable |-> TRUE,
     tree |-> Node("Module", "", <<
                Node("FunctionDef", "f", <<Arguments, Stmt(Call("g"))>>) >>),
     imports |-> <<>>, functions |-> <<"f">>, classes |-> <<>>]

\*   def g():
\*       pass
FileG ==
    [ext |-> ".py", parsable |-> TRUE,
     tree |-> Node("Module", "", <<
                Node("FunctionDef", "g", <<Arguments, Pass>>) >>),
     imports |-> <<>>, functions |-> <<"g">>, classes |-> <<>>]

\*   class K:
\*       h()
\*       def m(self):
\*           g()
\*           def inner():
\*               h()
FileClass ==
    [ext |-> ".py", parsable |-> TRUE,
     tree |-> Node("Module", "", <<
                Node("ClassDef", "K", <<
                  Stmt(Call("h")),
                  Node("FunctionDef", "m", <<
                    Arguments,
                    Stmt(Call("g")),
                    Node("FunctionDef", "inner", <<Arguments, Stmt(Call("h"))>>)
                  >>) >>) >>),
     imports |-> <<>>, functions |-> <<"m", "inner">>, classes |-> <<"K">>]

\*   import os
\*   @d()
\*   @os.e()
\*   def f():
\*       pass
FileDecorated ==
    [ext |-> ".py", parsable |-> TRUE,
     tree |-> Node("Module", "", <<
                Node("Import", "", <<>>),
                Node("FunctionDef", "f", <<Arguments, Pass, Call("d"), Call("")>>) >>),
     imports |-> <<"os">>, functions |-> <<"f">>, classes |-> <<>>]

\*   def f(:
\*       g()
FileBroken ==
    [ext |-> ".py", parsable |-> FALSE, tree |-> Node("", "", <<>>),
     imports |-> <<>>, functions |-> <<"f">>, classes |-> <<>>]

\*   function h() { g(); }
FileScript ==
    [ext |-> ".js", parsable |-> FALSE, tree |-> Node("", "", <<>>),
     imports |-> <<>>, functions |-> <<"h">>, classes |-> <<>>]

SourceFiles ==
    {FileFCallsG, FileG, FileClass, FileDecorated, FileBroken, FileScript}

\* the directories of at most n files, in the order os.walk yields them
RECURSIVE Directories(_)
Directories(n) ==
    IF n = 0 THEN {}
    ELSE LET smaller == Directories(n - 1)
         IN  smaller \cup {<<file>> : file \in SourceFiles}
                     \cup {Append(d, file) : d \in smaller, file \in SourceFiles}

\* The loop of process_directory over the remaining files: a file that does
\* not end in .py is passed over; ast.parse of a .py file that does not parse
\* raises SyntaxError, which nothing in call_graph.py catches.
RECURSIVE ScanLoop(_, _)
ScanLoop(files, combined_calls) ==
    IF files = <<>> THEN [state |-> "returned", calls |-> combined_calls]
    ELSE LET file == Head(files)
         IN  IF file.ext # ".py" THEN ScanLoop(Tail(files), combined_calls)
             ELSE IF ~file.parsable THEN [state |-> "raised", calls |-> <<>>]
             ELSE ScanLoop(Tail(files),
                           combined_calls \o extract_calls(file.tree, ""))

process_directory(files) == ScanLoop(files, <<>>)

(* ---------------- generate_text_summary ---------------- *)
\* [node for node, data in code_graph.nodes(data=True) if type == 'import']
ImportNodes(g) == {node \in DOMAIN g.nodes : g.nodes[node] = "import"}

\* Counter(imports): for each import node, how many elements of that list are
\* equal to it.  most_common(10) lists them all when there are at most ten.
common_imports(g) ==
    [imp \in ImportNodes(g) |->
        Cardinality({node \in ImportNodes(g) : node = imp})]

(* ---------------- state ---------------- *)
VARIABLES
    nfiles,          \* number of files os.walk found (files_to_process)
    content,         \* content[f]: what file f holds
    readable,        \* readable[f]: open()/read() of f succeeds
    service,         \* the kinds of response the endpoint gives in this run
    horizon,         \* the model follows the clock up to this time
    eager,           \* the run is one where nothing takes longer than it
                     \* must: every call is answered before the clock moves
                     \* and, of the tasks waiting for the same thing, the
                     \* one of the earliest file goes first
    run,             \* the number of the run of the program, from 1
    disk,            \* the cache file
    phase,           \* where main() is
    cache,           \* the dict load_cache returned, shared by the tasks
    pc,              \* pc[f]: where the task process_file(f) is
    loop_i,          \* loop_i[f]: i + 1 of the chunk loop of f
    request,         \* request[f]: the chunk in the request of f in flight
    chunk_analyses,  \* chunk_analyses[f]
    task_result,     \* what process_file(f) returned: <<>> is None
    results,         \* the list process_files returned
    sem_value,       \* semaphore._value
    sem_waiters,     \* the tasks queued on the semaphore, oldest first
    level,           \* rate_limiter._level * TIME_PERIOD
    last_check,      \* rate_limiter._last_check
    now,             \* loop.time()
    wake,            \* wake[f]: when the task of f waiting for the limiter
                     \* checks it next; wake[0] is that of main()
    admit_count,     \* history: how many calls the limiter admitted
    first_admit,     \* history: when it admitted the first of them
    recent,          \* history: when it admitted the last
                     \* CALLS_PER_MINUTE + 1 of them
    posted,          \* history: posted[f], the chunk numbers posted for f
    received,        \* history: received[f], the kinds of the responses to them
    loaded,          \* history: the cache as load_cache returned it
    split_lines,     \* the content given to split_content on its own
    split_max,       \* the max_chars given with it
    split_chunks,    \* <<chunks>> once split_content returned, <<>> before
    directory,       \* the files os.walk yields to process_directory
    call_graph,      \* what process_directory did: nothing yet, returned
                     \* its list of calls, or raised
    symbols,         \* symbols[i]: <<what extract_imports_and_functions
                     \* returned for file i of the directory>>, <<>> before
    code_graph,      \* the global code_graph
    call_graph_analysis,     \* <<>> until analyze_call_graph_with_llm returns
    batch,                   \* i + 1 of the batch loop of global_analysis
    global_analysis_results, \* the list of the same name
    fatal,           \* why the run terminated abnormally, "" if it did not
    output           \* <<full_results>> once written to args.output, <<>> before

env == <<nfiles, content, readable, service, horizon, eager, run>>
limiter == <<level, last_check>>
history == <<admit_count, first_admit, recent>>
gates == <<sem_value, sem_waiters, limiter, wake, history>>
tasks == <<pc, loop_i, request, chunk_analyses, task_result, posted, received>>
split == <<split_lines, split_max, split_chunks>>
scan == <<directory, call_graph, symbols>>
second == <<results, call_graph_analysis, batch, global_analysis_results>>
vars == <<env, split, scan, disk, phase, cache, loaded, tasks, gates, now, code_graph,
          second, fatal, output>>

Files == 1..nfiles
Chunks(f) == split_content(content[f].lines, MAX_CHARS)

InitProgram ==
    /\ run = 1
    /\ phase = "start"
    /\ cache = <<>>
    /\ pc = [f \in Files |-> "created"]
    /\ loop_i = [f \in Files |-> 0]
    /\ request = [f \in Files |-> <<>>]
    /\ chunk_analyses = [f \in Files |-> <<>>]
    /\ task_result = [f \in Files |-> <<>>]
    /\ posted = [f \in Files |-> <<>>]
    /\ received = [f \in Files |-> <<>>]
    /\ loaded = <<>>
    /\ results = <<>>
    /\ sem_value = MAX_CONCURRENT_CALLS
    /\ sem_waiters = <<>>
    /\ level = 0
    /\ last_check = 0
    /\ now = 0
    /\ wake = [f \in 0..nfiles |-> 0]
    /\ admit_count = 0
    /\ first_admit = 0
    /\ recent = <<>>
    /\ code_graph = [nodes |-> <<>>, edges |-> {}]
    /\ call_graph_analysis = <<>>
    /\ batch = 0
    /\ global_analysis_results = <<>>
    /\ fatal = ""
    /\ output = <<>>

\* split_content is not called on its own
NoSplit ==
    /\ split_lines = <<>>
    /\ split_max = 0
    /\ split_chunks = <<>>

\* process_directory and extract_imports_and_functions are not called on
\* their own
NoScan ==
    /\ directory = <<>>
    /\ call_graph = [state |-> "none", calls |-> <<>>]
    /\ symbols = <<>>

\* the ways the endpoint of a run behaves: it answers, or fails in one way
Services == {{"ok", k} : k \in Outcomes \ {"ok"}}

\* A run over NumFiles files of any content, with any cache file, against
\* an endpoint of any behaviour.  A file that cannot be read has no entry.
Init ==
    /\ nfiles = NumFiles
    /\ content \in [1..NumFiles -> Contents]
    /\ readable \in [1..NumFiles -> BOOLEAN]
    /\ service \in Services
    /\ horizon = MaxTicks * TickSeconds
    /\ eager = FALSE
    /\ disk \in CacheFiles(NumFiles)
    /\ \A f \in 1..NumFiles :
          ~readable[f] => content[f] = ContentA /\ f \notin DOMAIN disk.entries
    /\ InitProgram
    /\ NoSplit
    /\ NoScan

(* ---------------- main(), up to process_files ---------------- *)
\* cache = load_cache(); the tasks of asyncio.gather are created
\* an exception load_cache raises leaves main()
LoadCache ==
    /\ phase = "start"
    /\ IF LoadRaises(disk)
       THEN /\ phase' = "crashed"
            /\ fatal' = "cache load"
            /\ UNCHANGED <<cache, loaded>>
       ELSE /\ cache' = load_cache(disk)
            /\ loaded' = cache'
            /\ phase' = "files"
            /\ UNCHANGED fatal
    /\ UNCHANGED <<env, split, scan, disk, tasks, gates, now, code_graph, second,
                   output>>

(* ---------------- process_file ---------------- *)
\* cached_result['file_type'] and cached_result['analysis'] can be read
PayloadReadable(p) ==
    IsDict(p) /\ "file_type" \in DOMAIN p /\ "analysis" \in DOMAIN p

\* a lookup that takes any entry of the path, whatever its hash
CacheHit_anyhash(f) == f \in DOMAIN cache

\* a lookup that finds nothing
CacheHit_never(f) == FALSE

\* file_path in cache and cache[file_path]['hash'] == file_hash_value
CacheHit(f) == f \in DOMAIN cache /\ cache[f].hash = file_hash(content[f])

\* The first step of the task of f, up to its first suspension.  The tasks
\* take their first step in the order gather created them.
StartFile(f) ==
    /\ phase = "files"
    /\ pc[f] = "created"
    /\ \A g \in 1..(f - 1) : pc[g] # "created"
    /\ IF ~readable[f]
       THEN \* read_file_safely raises: except Exception, return None
            /\ pc' = [pc EXCEPT ![f] = "done"]
            /\ UNCHANGED <<task_result, sem_waiters, code_graph>>
       ELSE IF CacheHit(f)
       THEN /\ pc' = [pc EXCEPT ![f] = "done"]
            /\ task_result' =
                 [task_result EXCEPT ![f] =
                    IF PayloadReadable(cache[f].analysis)
                    THEN <<MakeResult(f, cache[f].analysis.file_type,
                                      cache[f].analysis.analysis)>>
                    ELSE <<>>]   \* KeyError: except Exception, return None
            /\ UNCHANGED <<sem_waiters, code_graph>>
       ELSE LET x == extract_imports_and_functions(content[f])
            IN  /\ code_graph' = update_graph(code_graph, f, x.imports,
                                              x.functions, x.classes)
                /\ sem_waiters' = Append(sem_waiters, f)
                /\ pc' = [pc EXCEPT ![f] = "semaphore"]
                /\ UNCHANGED task_result
    /\ UNCHANGED <<env, split, scan, disk, phase, cache, loaded, loop_i, request,
                   chunk_analyses, posted, received, sem_value, limiter, wake,
                   history, now, second, fatal, output>>

(* ---------------- analyze_code_file_chunked ---------------- *)
\* async with semaphore: the oldest waiter takes a free slot
SemAcquire(f) ==
    /\ pc[f] = "semaphore"
    /\ sem_waiters # <<>> /\ Head(sem_waiters) = f
    /\ ~SemLocked(sem_value)
    /\ sem_value' = sem_value - 1
    /\ sem_waiters' = Tail(sem_waiters)
    /\ loop_i' = [loop_i EXCEPT ![f] = 1]
    /\ pc' = [pc EXCEPT ![f] = "rate_limiter"]
    /\ wake' = [wake EXCEPT ![f] = now]
    /\ UNCHANGED <<env, split, scan, disk, phase, cache, loaded, request,
                   chunk_analyses, task_result, posted, received, limiter,
                   history, now, code_graph, second, fatal, output>>

\* the limiter admits a call at the time t
Admit(t) ==
    /\ admit_count' = admit_count + 1
    /\ first_admit' = IF admit_count = 0 THEN t ELSE first_admit
    /\ recent' = Remember(recent, t)

\* async with rate_limiter, then session.post of chunk loop_i[f].  The task
\* checks the capacity when it arrives and whenever its sleep is over; the
\* check leaks the bucket.  Without capacity the task sleeps again.
RateAcquire(f) ==
    /\ pc[f] = "rate_limiter"
    /\ wake[f] <= now
    /\ eager => \A g \in 1..(f - 1) : ~(pc[g] = "rate_limiter" /\ wake[g] <= now)
    /\ LET lvl == Leak(level, last_check, now)
       IN  /\ last_check' = now
           /\ IF has_capacity(lvl)
              THEN /\ level' = lvl + TIME_PERIOD
                   /\ Admit(now)
                   /\ request' = [request EXCEPT ![f] = <<Chunks(f)[loop_i[f]]>>]
                   /\ posted' = [posted EXCEPT ![f] = Append(@, loop_i[f])]
                   /\ pc' = [pc EXCEPT ![f] = "post"]
                   /\ wake' = [wake EXCEPT ![f] = 0]
              ELSE /\ level' = lvl
                   /\ wake' = [wake EXCEPT ![f] = now + DripSeconds]
                   /\ UNCHANGED <<history, request, posted, pc>>
    /\ UNCHANGED <<env, split, scan, disk, phase, cache, loaded, loop_i,
                   chunk_analyses, task_result, received, sem_value,
                   sem_waiters, now, code_graph, second, fatal, output>>

\* an outcome put in front of the earlier ones
AppendAnalysis_front(analyses, text) == <<text>> \o analyses

\* chunk_analyses.append(...)
AppendAnalysis(analyses, text) == Append(analyses, text)

\* a test that takes a text with a failure note in it for no analysis
Truthy_unfailed(analysis) ==
    \A k \in 1..Len(analysis.sections) : analysis.sections[k].body.kind = "reply"

\* combined_analysis is never the empty string: it starts with its header
Truthy(analysis) == analysis.header # "" \/ analysis.sections # <<>>

\* The response to the request of f arrives; the loop polls the network only
\* once every task has taken its first step.  The outcome is appended; after
\* the last chunk the task leaves the semaphore, combines the analyses and
\* process_file writes the cache and returns.
Respond(f, kind) ==
    /\ pc[f] = "post"
    /\ \A g \in Files : pc[g] # "created"
    /\ eager => \A g \in 1..(f - 1) : pc[g] # "post"
    /\ kind \in service
    /\ LET analyses == AppendAnalysis(chunk_analyses[f],
                           OutcomeText(kind, f, loop_i[f], request[f][1]))
       IN  /\ chunk_analyses' = [chunk_analyses EXCEPT ![f] = analyses]
           /\ received' = [received EXCEPT ![f] = Append(@, kind)]
           /\ request' = [request EXCEPT ![f] = <<>>]
           /\ IF loop_i[f] < Len(Chunks(f))
              THEN /\ loop_i' = [loop_i EXCEPT ![f] = @ + 1]
                   /\ pc' = [pc EXCEPT ![f] = "rate_limiter"]
                   /\ wake' = [wake EXCEPT ![f] = now]
                   /\ UNCHANGED <<sem_value, task_result, cache, disk>>
              ELSE LET file_type == get_file_type(f)
                       analysis == CombineAnalyses(file_type, analyses)
                       result == MakeResult(f, file_type, analysis)
                   IN  /\ sem_value' = sem_value + 1
                       /\ pc' = [pc EXCEPT ![f] = "done"]
                       /\ UNCHANGED <<loop_i, wake>>
                       /\ IF Truthy(analysis)
                          THEN /\ cache' = CacheWith(cache, f,
                                             file_hash(content[f]), result)
                               /\ disk' = save_cache(cache')
                               /\ task_result' = [task_result EXCEPT ![f] = <<result>>]
                          ELSE UNCHANGED <<cache, disk, task_result>>
    /\ UNCHANGED <<env, split, scan, phase, loaded, posted, sem_waiters, limiter,
                   history, now, code_graph, second, fatal, output>>

(* ---------------- process_files and the rest of main() ---------------- *)
\* a list in the reverse of the task order
RECURSIVE Gathered_reversed(_, _)
Gathered_reversed(tr, n) ==
    IF n = 0 THEN <<>> ELSE tr[n] \o Gathered_reversed(tr, n - 1)

\* [result for result in results if result is not None], in task order
RECURSIVE Gathered(_, _)
Gathered(tr, n) ==
    IF n = 0 THEN <<>> ELSE Gathered(tr, n - 1) \o tr[n]

\* a gather that returns as soon as one task has
GatherReturns_first == \E f \in Files : pc[f] = "done"

\* await asyncio.gather(*tasks) returns once every task has
GatherReturns == \A f \in Files : pc[f] = "done"

\* process_files returns; main goes on to the call graph and enters
\* analyze_call_graph_with_llm up to its rate limiter
GatherDone ==
    /\ phase = "files"
    /\ GatherReturns
    /\ results' = Gathered(task_result, nfiles)
    /\ ~SemLocked(sem_value)
    /\ sem_value' = sem_value - 1
    /\ phase' = "cg_rate_limiter"
    /\ wake' = [wake EXCEPT ![0] = now]
    /\ UNCHANGED <<env, split, scan, disk, cache, loaded, tasks, sem_waiters, limiter, history,
                   now, code_graph, call_graph_analysis, batch,
                   global_analysis_results, fatal, output>>

\* a count of the full batches only
NumBatches_floor(n) == n \div CHUNK_SIZE

\* chunks = [results[i:i + chunk_size] for i in range(0, len(results), chunk_size)]
NumBatches(n) == (n + CHUNK_SIZE - 1) \div CHUNK_SIZE

BatchOf(rs, b) ==
    SubSeq(rs, (b - 1) * CHUNK_SIZE + 1,
           IF b * CHUNK_SIZE < Len(rs) THEN b * CHUNK_SIZE ELSE Len(rs))

\* what create_summary_chunk tells the service about: the files of the batch
Digest(chunk) == [k \in 1..Len(chunk) |-> chunk[k].file_path]

\* async with rate_limiter of a call main() makes itself, then the post
MainRateAcquire ==
    /\ phase \in {"cg_rate_limiter", "ga_rate_limiter"}
    /\ wake[0] <= now
    /\ LET lvl == Leak(level, last_check, now)
       IN  /\ last_check' = now
           /\ IF has_capacity(lvl)
              THEN /\ level' = lvl + TIME_PERIOD
                   /\ Admit(now)
                   /\ phase' = IF phase = "cg_rate_limiter"
                               THEN "cg_post" ELSE "ga_post"
                   /\ wake' = [wake EXCEPT ![0] = 0]
              ELSE /\ level' = lvl
                   /\ wake' = [wake EXCEPT ![0] = now + DripSeconds]
                   /\ UNCHANGED <<history, phase>>
    /\ UNCHANGED <<env, split, scan, disk, cache, loaded, tasks, sem_value, sem_waiters, now,
                   code_graph, second, fatal, output>>

\* global_analysis is entered: with no result there is no batch and it
\* returns at once, otherwise the first batch goes for the gates
EnterGlobal(next_sem) ==
    IF NumBatches(Len(results)) = 0
    THEN /\ phase' = "output"
         /\ sem_value' = next_sem
         /\ UNCHANGED <<batch, wake>>
    ELSE /\ phase' = "ga_rate_limiter"
         /\ sem_value' = next_sem - 1
         /\ batch' = 1
         /\ wake' = [wake EXCEPT ![0] = now]

\* The response to the call of analyze_call_graph_with_llm.  Only the status
\* is tested: an exception of the transport or a body without 'choices'
\* leaves main() as an exception.
CallGraphRespond(kind) ==
    /\ phase = "cg_post"
    /\ kind \in service
    /\ IF kind \in {"ok", "status"}
       THEN /\ call_graph_analysis' =
                 <<IF kind = "ok" THEN Reply(0, 0, <<>>)
                   ELSE FailureNote(0, "Error in analyzing call graph")>>
            /\ EnterGlobal(sem_value + 1)
            /\ UNCHANGED fatal
       ELSE /\ phase' = "crashed"
            /\ fatal' = "call graph analysis"
            /\ sem_value' = sem_value + 1
            /\ UNCHANGED <<call_graph_analysis, batch, wake>>
    /\ UNCHANGED <<env, split, scan, disk, cache, loaded, tasks, sem_waiters, limiter, history,
                   now, code_graph, results, global_analysis_results, output>>

\* The response to the call for batch number batch of global_analysis
GlobalRespond(kind) ==
    /\ phase = "ga_post"
    /\ kind \in service
    /\ global_analysis_results' =
          Append(global_analysis_results,
                 OutcomeText(kind, 0, batch, Digest(BatchOf(results, batch))))
    /\ IF batch < NumBatches(Len(results))
       THEN /\ batch' = batch + 1
            /\ phase' = "ga_rate_limiter"
            /\ wake' = [wake EXCEPT ![0] = now]
            /\ UNCHANGED sem_value
       ELSE /\ phase' = "output"
            /\ sem_value' = sem_value + 1
            /\ UNCHANGED <<batch, wake>>
    /\ UNCHANGED <<env, split, scan, disk, cache, loaded, tasks, sem_waiters, limiter, history,
                   now, code_graph, results, call_graph_analysis, fatal, output>>

\* combined_analysis of global_analysis: one "## Chunk {i+1} Analysis"
\* section per element of global_analysis_results, in list order, and the
\* number of files in the overall summary
CombineGlobal(analyses, rs) ==
    [sections |-> [k \in 1..Len(analyses) |-> [n |-> k, body |-> analyses[k]]],
     total |-> Len(rs)]

\* json.dump of the bundle to args.output, then save_cache(cache); when the
\* output cannot be written the exception ends the run
WriteOutput(writable) ==
    /\ phase = "output"
    /\ IF writable
       THEN /\ output' = <<[global_analysis |->
                              CombineGlobal(global_analysis_results, results),
                           call_graph_analysis |-> call_graph_analysis[1],
                           file_analyses |-> results]>>
            /\ disk' = save_cache(cache)
            /\ phase' = "done"
            /\ UNCHANGED fatal
       ELSE /\ phase' = "crashed"
            /\ fatal' = "output"
            /\ UNCHANGED <<disk, output>>
    /\ UNCHANGED <<env, split, scan, cache, loaded, tasks, gates, now, code_graph, second>>

\* some task, or main(), has a step to take that waits for nothing
Busy ==
    \/ phase \in {"start", "output"}
    \/ \E f \in Files : pc[f] = "created"
    \/ sem_waiters # <<>> /\ ~SemLocked(sem_value)
    \/ \E f \in Files : pc[f] = "rate_limiter" /\ wake[f] <= now
    \/ phase \in {"cg_rate_limiter", "ga_rate_limiter"} /\ wake[0] <= now
    \/ phase = "files" /\ GatherReturns

\* The clock goes on while every task waits for a response or sleeps; the
\* steps of the program itself take no time.
Tick ==
    /\ phase \notin {"done", "crashed", "killed"}
    /\ ~Busy
    /\ eager => /\ \A f \in Files : pc[f] # "post"
                /\ phase \notin {"cg_post", "ga_post"}
    /\ now + TickSeconds <= horizon
    /\ now' = now + TickSeconds
    /\ UNCHANGED <<env, split, scan, disk, phase, cache, loaded, tasks, gates,
                   code_graph, second, fatal, output>>

Next ==
    \/ LoadCache
    \/ \E f \in Files : StartFile(f)
    \/ \E f \in Files : SemAcquire(f)
    \/ \E f \in Files : RateAcquire(f)
    \/ \E f \in Files, kind \in Outcomes : Respond(f, kind)
    \/ GatherDone
    \/ MainRateAcquire
    \/ \E kind \in Outcomes : CallGraphRespond(kind)
    \/ \E kind \in Outcomes : GlobalRespond(kind)
    \/ \E writable \in BOOLEAN : WriteOutput(writable)
    \/ Tick

Spec == Init /\ [][Next]_vars

\* A run over GateFiles files, more than the semaphore has slots, none of
\* them cached; the first file has two chunks.
InitGate ==
    /\ nfiles = GateFiles
    /\ content = [f \in 1..GateFiles |-> IF f = 1 THEN ContentB ELSE ContentA]
    /\ readable = [f \in 1..GateFiles |-> TRUE]
    /\ service = {"ok", "exception"}
    /\ horizon = GateTicks * TickSeconds
    /\ eager = FALSE
    /\ disk = [kind |-> "missing", entries |-> <<>>]
    /\ InitProgram
    /\ NoSplit
    /\ NoScan

SpecGate == InitGate /\ [][Next]_vars

\* A run over RateFiles single-chunk files, none of them cached, against an
\* endpoint that answers every call, followed for RateTicks ticks: the
\* fastest run, in which the calls are admitted as early as they can be.
InitRate ==
    /\ nfiles = RateFiles
    /\ content = [f \in 1..RateFiles |-> ContentA]
    /\ readable = [f \in 1..RateFiles |-> TRUE]
    /\ service = {"ok"}
    /\ horizon = RateTicks * TickSeconds
    /\ eager = TRUE
    /\ disk = [kind |-> "missing", entries |-> <<>>]
    /\ InitProgram
    /\ NoSplit
    /\ NoScan

SpecRate == InitRate /\ [][Next]_vars

\* A run over BatchFiles files, more than one batch holds: the first is
\* analysed, the others are served from the cache.
InitBatch ==
    /\ nfiles = BatchFiles
    /\ content = [f \in 1..BatchFiles |-> ContentA]
    /\ readable = [f \in 1..BatchFiles |-> TRUE]
    /\ service = {"ok", "exception"}
    /\ horizon = BatchTicks * TickSeconds
    /\ eager = FALSE
    /\ disk = [kind |-> "map",
               entries |-> [f \in 2..BatchFiles |->
                              [hash |-> file_hash(ContentA),
                               analysis |-> CleanResult(f, ContentA)]]]
    /\ InitProgram
    /\ NoSplit
    /\ NoScan

SpecBatch == InitBatch /\ [][Next]_vars

(* ---------------- a run after a run ---------------- *)
\* The program is started again on the same files once a run has completed:
\* a new process, with everything as after construction, finds the cache
\* file the run before left.
Rerun ==
    /\ phase = "done"
    /\ run < MaxRuns
    /\ run' = run + 1
    /\ phase' = "start"
    /\ cache' = <<>>
    /\ pc' = [f \in Files |-> "created"]
    /\ loop_i' = [f \in Files |-> 0]
    /\ request' = [f \in Files |-> <<>>]
    /\ chunk_analyses' = [f \in Files |-> <<>>]
    /\ task_result' = [f \in Files |-> <<>>]
    /\ posted' = [f \in Files |-> <<>>]
    /\ received' = [f \in Files |-> <<>>]
    /\ loaded' = <<>>
    /\ results' = <<>>
    /\ sem_value' = MAX_CONCURRENT_CALLS
    /\ sem_waiters' = <<>>
    /\ level' = 0
    /\ last_check' = 0
    /\ now' = 0
    /\ wake' = [f \in 0..nfiles |-> 0]
    /\ admit_count' = 0
    /\ first_admit' = 0
    /\ recent' = <<>>
    /\ code_graph' = [nodes |-> <<>>, edges |-> {}]
    /\ call_graph_analysis' = <<>>
    /\ batch' = 0
    /\ global_analysis_results' = <<>>
    /\ fatal' = ""
    /\ output' = <<>>
    /\ UNCHANGED <<nfiles, content, readable, service, horizon, eager, split,
                   scan, disk>>

\* Runs, one after the other, over RerunFiles files that are not in the cache
\* at first, the first of two chunks, against an endpoint whose calls can fail.
InitRerun ==
    /\ nfiles = RerunFiles
    /\ content = [f \in 1..RerunFiles |-> IF f = 1 THEN ContentB ELSE ContentA]
    /\ readable = [f \in 1..RerunFiles |-> TRUE]
    /\ service = {"ok", "exception"}
    /\ horizon = RerunTicks * TickSeconds
    /\ eager = FALSE
    /\ disk = [kind |-> "missing", entries |-> <<>>]
    /\ InitProgram
    /\ NoSplit
    /\ NoScan

NextRerun ==
    \/ Next
    \/ Rerun

SpecRerun == InitRerun /\ [][NextRerun]_vars

(* ---------------- a run followed to its end ---------------- *)
\* Time goes on past the horizon.  The clock stays where it is and the times
\* the program compares it with move back instead: the last check of the
\* bucket, no further than the TIME_PERIOD after which the bucket is empty
\* whatever its level was, and the ends of the sleeps.  The admission times
\* kept for the record are those of the clock up to the horizon.
Later ==
    /\ phase \notin {"done", "crashed", "killed"}
    /\ ~Busy
    /\ eager => /\ \A f \in Files : pc[f] # "post"
                /\ phase \notin {"cg_post", "ga_post"}
    /\ now + TickSeconds > horizon
    /\ last_check' = IF last_check - TickSeconds >= now - TIME_PERIOD
                      THEN last_check - TickSeconds
                      ELSE now - TIME_PERIOD
    /\ wake' = [f \in 0..nfiles |->
                  IF wake[f] > TickSeconds THEN wake[f] - TickSeconds ELSE 0]
    /\ UNCHANGED <<env, split, scan, disk, phase, cache, loaded, tasks,
                   sem_value, sem_waiters, level, history, now, code_graph,
                   second, fatal, output>>

\* the steps the event loop runs by itself: a ready task is run
Steps ==
    \/ LoadCache
    \/ \E f \in Files : StartFile(f)
    \/ \E f \in Files : SemAcquire(f)
    \/ \E f \in Files : RateAcquire(f)
    \/ GatherDone
    \/ MainRateAcquire
    \/ \E writable \in BOOLEAN : WriteOutput(writable)

\* the endpoint answers a call that was posted
Returns ==
    \/ \E f \in Files, kind \in Outcomes : Respond(f, kind)
    \/ \E kind \in Outcomes : CallGraphRespond(kind)
    \/ \E kind \in Outcomes : GlobalRespond(kind)

\* time passes
Passes ==
    \/ Tick
    \/ Later

\* A run over LiveFiles files, more than the semaphore has slots, the first
\* of two chunks, none of them cached, against an endpoint that answers.
InitLive ==
    /\ nfiles = LiveFiles
    /\ content = [f \in 1..LiveFiles |-> IF f = 1 THEN ContentB ELSE ContentA]
    /\ readable = [f \in 1..LiveFiles |-> TRUE]
    /\ service = {"ok"}
    /\ horizon = LiveTicks * TickSeconds
    /\ eager = FALSE
    /\ disk = [kind |-> "missing", entries |-> <<>>]
    /\ InitProgram
    /\ NoSplit
    /\ NoScan

NextLive ==
    \/ Next
    \/ Later

\* The event loop runs every task that is ready, every call posted is
\* answered, and time passes.
SpecLive ==
    /\ InitLive
    /\ [][NextLive]_vars
    /\ WF_vars(Steps)
    /\ WF_vars(Returns)
    /\ WF_vars(Passes)

(* ---------------- termination from outside ---------------- *)
\* nothing of the process runs any more
Halted ==
    /\ phase' = "killed"
    /\ pc' = [f \in Files |-> "killed"]

\* the process is terminated at a point where it is not writing the cache file
Killed ==
    /\ phase \notin {"done", "crashed", "killed"}
    /\ Halted
    /\ UNCHANGED <<env, split, scan, disk, cache, loaded, loop_i, request,
                   chunk_analyses, task_result, posted, received, gates, now,
                   code_graph, second, fatal, output>>

\* The process is terminated while save_cache, called by update_cache for
\* file f, is writing: open(CACHE_FILE, 'w') has emptied the file and
\* json.dump has written a part of the text, which is not JSON.
KilledInUpdate(f, kind) ==
    /\ phase = "files"
    /\ pc[f] = "post"
    /\ \A g \in Files : pc[g] # "created"
    /\ kind \in service
    /\ loop_i[f] = Len(Chunks(f))
    /\ LET analyses == AppendAnalysis(chunk_analyses[f],
                           OutcomeText(kind, f, loop_i[f], request[f][1]))
           file_type == get_file_type(f)
           analysis == CombineAnalyses(file_type, analyses)
       IN  /\ Truthy(analysis)
           /\ cache' = CacheWith(cache, f, file_hash(content[f]),
                                 MakeResult(f, file_type, analysis))
    /\ disk' = [kind |-> "corrupt", entries |-> <<>>]
    /\ Halted
    /\ UNCHANGED <<env, split, scan, loaded, loop_i, request, chunk_analyses,
                   task_result, posted, received, gates, now, code_graph,
                   second, fatal, output>>

\* A run over CrashFiles files that all miss the cache, against an endpoint
\* that answers every call, which can be terminated at any point.
InitCrash ==
    /\ nfiles = CrashFiles
    /\ content = [f \in 1..CrashFiles |-> ContentA]
    /\ readable = [f \in 1..CrashFiles |-> TRUE]
    /\ service = {"ok"}
    /\ horizon = CrashTicks * TickSeconds
    /\ eager = FALSE
    /\ disk = [kind |-> "missing", entries |-> <<>>]
    /\ InitProgram
    /\ NoSplit
    /\ NoScan

NextCrash ==
    \/ Next
    \/ Killed
    \/ \E f \in Files, kind \in Outcomes : KilledInUpdate(f, kind)

SpecCrash == InitCrash /\ [][NextCrash]_vars

(* ---------------- the scans of a directory on their own ---------------- *)
\* process_directory and extract_imports_and_functions are about to be called
\* on the files of any directory of at most DirFiles files; there is no run
InitScan ==
    /\ directory \in Directories(DirFiles)
    /\ call_graph = [state |-> "none", calls |-> <<>>]
    /\ symbols = [i \in 1..Len(directory) |-> <<>>]
    /\ nfiles = 0
    /\ content = <<>>
    /\ readable = <<>>
    /\ service = {"ok"}
    /\ horizon = 0
    /\ eager = FALSE
    /\ disk = [kind |-> "missing", entries |-> <<>>]
    /\ InitProgram
    /\ NoSplit

\* call_graph = process_directory(args.path)
ProcessDirectory ==
    /\ call_graph.state = "none"
    /\ call_graph' = process_directory(directory)
    /\ UNCHANGED <<env, split, directory, symbols, disk, phase, cache, loaded,
                   tasks, gates, now, code_graph, second, fatal, output>>

\* imports, functions, classes = extract_imports_and_functions(content, file_path)
ExtractSymbols(i) ==
    /\ symbols[i] = <<>>
    /\ symbols' = [symbols EXCEPT ![i] =
                      <<extract_imports_and_functions(directory[i])>>]
    /\ UNCHANGED <<env, split, directory, call_graph, disk, phase, cache,
                   loaded, tasks, gates, now, code_graph, second, fatal, output>>

NextScan ==
    \/ ProcessDirectory
    \/ \E i \in 1..Len(directory) : ExtractSymbols(i)

SpecScan == InitScan /\ [][NextScan]_vars

(* ---------------- load_cache on its own ---------------- *)
\* load_cache is about to be called on any cache file with entries for at
\* most LoadPaths paths; there are no files to analyse
InitLoad ==
    /\ disk \in LoadFiles(LoadPaths)
    /\ nfiles = 0
    /\ content = <<>>
    /\ readable = <<>>
    /\ service = {"ok"}
    /\ horizon = 0
    /\ eager = FALSE
    /\ InitProgram
    /\ NoSplit
    /\ NoScan

NextLoad == LoadCache

SpecLoad == InitLoad /\ [][NextLoad]_vars

(* ---------------- split_content on its own ---------------- *)
\* the sequences of 1..n line lengths
RECURSIVE LineSeqs(_)
LineSeqs(n) ==
    IF n = 0 THEN {}
    ELSE LET shorter == LineSeqs(n - 1)
         IN  shorter \cup {<<l>> : l \in 0..MaxLineLen}
                     \cup {Append(ls, l) : ls \in shorter, l \in 0..MaxLineLen}

\* split_content is about to be called with any content of at most MaxLines
\* lines and any budget; there is no run
InitSplit ==
    /\ split_lines \in LineSeqs(MaxLines)
    /\ split_max \in 1..MaxBudget
    /\ split_chunks = <<>>
    /\ nfiles = 0
    /\ content = <<>>
    /\ readable = <<>>
    /\ service = {"ok"}
    /\ horizon = 0
    /\ eager = FALSE
    /\ disk = [kind |-> "missing", entries |-> <<>>]
    /\ InitProgram
    /\ NoScan

\* chunks = split_content(content, max_chars)
CallSplit ==
    /\ split_lines # <<>>
    /\ split_chunks = <<>>
    /\ split_chunks' = <<split_content(split_lines, split_max)>>
    /\ UNCHANGED <<env, split_lines, split_max, scan, disk, phase, cache, loaded,
                   tasks, gates, now, code_graph, second, fatal, output>>

NextSplit == CallSplit

SpecSplit == InitSplit /\ [][NextSplit]_vars

(* ======================= the claims ======================= *)
Last(seq) == seq[Len(seq)]

\* the external calls in flight: a request was posted, no response yet
InFlight ==
    Cardinality({f \in Files : pc[f] = "post"})
    + (IF phase \in {"cg_post", "ga_post"} THEN 1 ELSE 0)

\* C1: whatever the number of files and the interleaving of their tasks, at
\* most MAX_CONCURRENT_CALLS external calls are in flight at the same time.
C1_ConcurrencyBound == InFlight <= MAX_CONCURRENT_CALLS

\* C1 witness: every slot carries a call in flight and a further task is
\* kept waiting for the semaphore.
C1_Witness ==
    /\ InFlight = MAX_CONCURRENT_CALLS
    /\ sem_waiters # <<>>
    /\ SemLocked(sem_value)

\* C2 (as claimed): every window of TIME_PERIOD seconds holds at most
\* CALLS_PER_MINUTE admissions, that is, of any CALLS_PER_MINUTE + 1
\* admissions in a row the last is at least TIME_PERIOD after the first.
C2_RollingWindow ==
    Len(recent) = CALLS_PER_MINUTE + 1
        => Last(recent) - recent[1] >= TIME_PERIOD

\* the number of windows the claim counts for n calls: ceil(n / R)
WindowsFor(n) == (n + CALLS_PER_MINUTE - 1) \div CALLS_PER_MINUTE

\* C3 (as claimed): the last of the RateFiles per-file calls is admitted no
\* earlier than ceil(RateFiles / CALLS_PER_MINUTE) windows after the first.
C3_FourWindows ==
    admit_count = RateFiles
        => Last(recent) - first_admit >= WindowsFor(RateFiles) * TIME_PERIOD

\* C3 (amended): the last of the RateFiles per-file calls is admitted no
\* earlier than (RateFiles - CALLS_PER_MINUTE) drips of
\* TIME_PERIOD / CALLS_PER_MINUTE seconds after the first: 180 seconds, three
\* windows, for 20 files.
C3_LeakyBucketBound ==
    admit_count = RateFiles
        => CALLS_PER_MINUTE * (Last(recent) - first_admit)
             >= (RateFiles - CALLS_PER_MINUTE) * TIME_PERIOD

\* C3 witness: the last per-file call has been admitted, exactly that long
\* after the first.
C3_Witness ==
    /\ admit_count = RateFiles
    /\ \A f \in Files : posted[f] # <<>>
    /\ CALLS_PER_MINUTE * (Last(recent) - first_admit)
          = (RateFiles - CALLS_PER_MINUTE) * TIME_PERIOD

(* ---------------- the cache and the results of the files ---------------- *)
\* the numbers 1..n in order
UpTo(n) == [k \in 1..n |-> k]

\* the cache file held an entry for f whose hash is that of f's content
StoredHit(f) == f \in DOMAIN loaded /\ loaded[f].hash = file_hash(content[f])

\* section k of the text is about chunk k of the content f holds now: the
\* answer to the request for that chunk, or a note of the failure of chunk k
AboutChunk(f, section, k) ==
    /\ section.n = k
    /\ section.body.idx = k
    /\ section.body.kind = "reply" =>
          section.body.path = f /\ section.body.about = Chunks(f)[k]

\* C4 (as claimed): a readable file is served from the cache, without a call
\* and with the stored payload as its result, if and only if the cache held an
\* entry for it with the hash of its content; otherwise one call per chunk is
\* issued for it.
C4_CacheValidity ==
    \A f \in Files :
        pc[f] = "done" /\ readable[f] =>
            IF StoredHit(f)
            THEN /\ posted[f] = <<>>
                 /\ task_result[f] # <<>>
                 /\ task_result[f][1] = MakeResult(f, loaded[f].analysis.file_type,
                                                   loaded[f].analysis.analysis)
            ELSE posted[f] = UpTo(Len(Chunks(f)))

\* the file had an entry in the cache, made for a content of another hash
Stale(f) ==
    /\ readable[f]
    /\ f \in DOMAIN loaded
    /\ loaded[f].hash # file_hash(content[f])

\* C5: a file whose entry was made for a content of another hash is analysed
\* again with one call per chunk, its entry is overwritten, in memory and on
\* disk, with the new hash and the new result, and its result is not the
\* stored analysis but a text about the chunks of the new content.
C5_ChangedContent ==
    \A f \in Files :
        pc[f] = "done" /\ Stale(f) =>
            /\ posted[f] = UpTo(Len(Chunks(f)))
            /\ task_result[f] # <<>>
            /\ cache[f] = [hash |-> file_hash(content[f]),
                           analysis |-> task_result[f][1]]
            /\ disk.kind = "map" /\ f \in DOMAIN disk.entries
            /\ disk.entries[f] = cache[f]
            /\ task_result[f][1].analysis # loaded[f].analysis.analysis
            /\ LET sections == task_result[f][1].analysis.sections
               IN  /\ Len(sections) = Len(Chunks(f))
                   /\ \A k \in 1..Len(sections) : AboutChunk(f, sections[k], k)

\* C5 witness: a file with a stale entry has been analysed again and every
\* one of its calls succeeded.
C5_Witness ==
    \E f \in Files :
        /\ pc[f] = "done" /\ Stale(f)
        /\ PayloadReadable(loaded[f].analysis)
        /\ received[f] = [k \in 1..Len(Chunks(f)) |-> "ok"]

\* every discovered file is readable and holds what its complete cache entry
\* was made for, as far as the hash tells
AllValid ==
    /\ phase # "start"
    /\ \A f \in Files :
          readable[f] /\ StoredHit(f) /\ PayloadReadable(loaded[f].analysis)

CachedResults ==
    [f \in 1..nfiles |-> MakeResult(f, loaded[f].analysis.file_type,
                                    loaded[f].analysis.analysis)]

C8_OnlyOutputFatal == phase = "crashed" => fatal = "output"

\* C9: the chunks of a file are posted in the order 1, 2, ..., each only when
\* the outcome of the one before is recorded, and the combined text has one
\* section per chunk, section k being about chunk k.
C9_ChunkOrder ==
    \A f \in Files :
        /\ posted[f] = UpTo(Len(posted[f]))
        /\ Len(posted[f]) =
              Len(chunk_analyses[f]) + (IF pc[f] = "post" THEN 1 ELSE 0)
        /\ pc[f] = "done" /\ task_result[f] # <<>> /\ posted[f] # <<>> =>
              LET sections == task_result[f][1].analysis.sections
              IN  /\ Len(sections) = Len(Chunks(f))
                  /\ \A k \in 1..Len(sections) : AboutChunk(f, sections[k], k)

\* C9 witness: a file of two chunks is done, its first call having failed
\* and its second succeeded.
C9_Witness ==
    \E f \in Files :
        /\ pc[f] = "done"
        /\ Len(Chunks(f)) >= 2
        /\ Len(received[f]) >= 2
        /\ received[f][1] # "ok" /\ received[f][2] = "ok"

(* ---------------- the chunks of split_content ---------------- *)
\* C10 (as claimed): no chunk split_content returns is longer than max_chars.
C10_UnderBudget ==
    split_chunks # <<>> =>
        \A k \in 1..Len(split_chunks[1]) :
            ChunkLen(split_chunks[1][k]) <= split_max

\* C10 (amended): a chunk split_content returns is at most max_chars + 1
\* characters long, the newline that ends it not being counted, unless it is
\* a single line that is longer than max_chars by itself.
C10_BudgetPlusNewline ==
    split_chunks # <<>> =>
        \A k \in 1..Len(split_chunks[1]) :
            LET chunk == split_chunks[1][k]
            IN  \/ ChunkLen(chunk) <= split_max + 1
                \/ Len(chunk) = 1 /\ chunk[1] > split_max

\* C10 witness: split_content returned a chunk of several lines that is
\* max_chars + 1 long, and a chunk that is one line longer than max_chars.
C10_Witness ==
    /\ split_chunks # <<>>
    /\ \E k \in 1..Len(split_chunks[1]) :
          /\ Len(split_chunks[1][k]) >= 2
          /\ ChunkLen(split_chunks[1][k]) = split_max + 1
    /\ \E k \in 1..Len(split_chunks[1]) :
          /\ Len(split_chunks[1][k]) = 1
          /\ split_chunks[1][k][1] > split_max

\* the lines of the chunks, one chunk after the other
RECURSIVE Concat(_)
Concat(chunks) ==
    IF chunks = <<>> THEN <<>> ELSE Head(chunks) \o Concat(Tail(chunks))

\* C11: the chunks of split_content, one after the other, are the lines of
\* the content (the pieces of content.split('\n')) in their order, each once
\* and each whole in one chunk; in characters, the chunks together are the
\* content followed by one newline.
C11_Partition ==
    split_chunks # <<>> =>
        /\ Concat(split_chunks[1]) = split_lines
        /\ ChunkLen(Concat(split_chunks[1])) = TextLen(split_lines) + 1

\* C11 witness: a content of three lines or more came back as two chunks or
\* more, one of them of several lines.
C11_Witness ==
    /\ split_chunks # <<>>
    /\ Len(split_lines) >= 3
    /\ Len(split_chunks[1]) >= 2
    /\ \E k \in 1..Len(split_chunks[1]) : Len(split_chunks[1][k]) >= 2

(* ---------------- the entries of the cache file ---------------- *)
\* the entry has a hash and a payload with a file type and an analysis text
Complete(v) == ValidEntry(v) /\ PayloadReadable(v.analysis)

\* C12 (as claimed): load_cache never ends the run, and what it returns is
\* the complete entries of the cache file, unchanged, and nothing else.
C12_CompleteEntriesOnly ==
    /\ fatal # "cache load"
    /\ phase = "files" /\ (\A f \in Files : pc[f] = "created") =>
          loaded = [k \in {p \in DOMAIN disk.entries : Complete(disk.entries[p])}
                      |-> disk.entries[k]]

\* the cache file held an entry for f that load_cache kept although its
\* payload lacks the file type or the analysis text
Malformed(f) ==
    /\ readable[f]
    /\ f \in DOMAIN loaded
    /\ ~PayloadReadable(loaded[f].analysis)

\* C13 (as claimed): a file whose stored entry is incomplete is a cache miss
\* whatever the entry's hash: one call per chunk is issued for it, it has a
\* result, and its entry is rewritten with that result.
C13_MalformedEntryIsMiss ==
    \A f \in Files :
        pc[f] = "done" /\ Malformed(f) =>
            /\ posted[f] = UpTo(Len(Chunks(f)))
            /\ task_result[f] # <<>>
            /\ cache[f] = [hash |-> file_hash(content[f]),
                           analysis |-> task_result[f][1]]

\* C14 (as claimed): when the process has been terminated, at most the most
\* recent update is lost.  Every update is written through, so the entries
\* the process had in its cache are those written to the file before its most
\* recent update and that update's own: of them, at most one cannot be loaded
\* from the cache file as it was.
C14_CrashConsistency ==
    phase = "killed" =>
        LET after == load_cache(disk)
        IN  Cardinality({p \in DOMAIN cache :
                            p \notin DOMAIN after \/ after[p] # cache[p]}) <= 1

(* ---------------- the call graph of a directory ---------------- *)
Range(seq) == {seq[k] : k \in 1..Len(seq)}

\* the statements of the body of a definition: its children other than the
\* arguments and the expressions of its header (decorators, bases)
Body(node) ==
    SelectSeq(node.children, LAMBDA c : c.type \notin {"arguments", "Call"})

\* The calls of bare identifiers in the statements under a node: the callee,
\* the innermost enclosing function or class (caller, with its kind), and the
\* definitions enclosing that one (outer).
RECURSIVE CallsIn(_, _, _, _), CallsInAll(_, _, _, _)
CallsInAll(nodes, caller, kind, outer) ==
    IF nodes = <<>> THEN {}
    ELSE CallsIn(Head(nodes), caller, kind, outer)
            \cup CallsInAll(Tail(nodes), caller, kind, outer)

CallsIn(node, caller, kind, outer) ==
    CASE node.type \in {"FunctionDef", "ClassDef"} ->
            CallsInAll(Body(node), node.name, node.type,
                       IF caller = "" THEN outer ELSE outer \cup {caller})
      [] node.type = "Call" ->
            IF node.name = "" THEN {}
            ELSE {[caller |-> caller, kind |-> kind, outer |-> outer,
                   callee |-> node.name]}
      [] OTHER -> CallsInAll(node.children, caller, kind, outer)

\* the calls in the statements of the files process_directory parses
ScannedCalls ==
    UNION {CallsIn(directory[i].tree, "", "", {}) :
             i \in {j \in 1..Len(directory) :
                       directory[j].ext = ".py" /\ directory[j].parsable}}

\* C15 (as claimed): when process_directory has returned, its list holds the
\* edge f -> g for every call of a bare identifier g in the body of a
\* function f of a scanned file, whichever file defines g.
C15_EdgePerCall ==
    call_graph.state = "returned" =>
        \A c \in ScannedCalls :
            c.kind = "FunctionDef" =>
                <<c.caller, c.callee>> \in Range(call_graph.calls)

\* C16 (as claimed): a call in a direct statement of a class body gives an
\* edge from the class name; a call inside a method or nested function gives
\* an edge from the innermost function around it, and none from a definition
\* further out that does not make that call itself.
C16_InnermostCaller ==
    call_graph.state = "returned" =>
        \A c \in ScannedCalls :
            /\ c.kind = "ClassDef" =>
                  <<c.caller, c.callee>> \in Range(call_graph.calls)
            /\ c.kind = "FunctionDef" /\ c.outer # {} =>
                  /\ <<c.caller, c.callee>> \in Range(call_graph.calls)
                  /\ \A o \in c.outer :
                        <<o, c.callee>> \in Range(call_graph.calls) =>
                            \E d \in ScannedCalls :
                                d.caller = o /\ d.callee = c.callee

\* C17 (as claimed): process_directory does not raise, whatever the files of
\* the directory, and extract_imports_and_functions returns the names found
\* in a file whether or not the file parses.
C17_NoScanAborts ==
    /\ call_graph.state # "raised"
    /\ \A i \in 1..Len(directory) :
          symbols[i] # <<>> =>
              symbols[i][1] = [imports |-> directory[i].imports,
                               functions |-> directory[i].functions,
                               classes |-> directory[i].classes]

(* ---------------- the files and their results ---------------- *)
\* C18 (as claimed): a file whose task is over has no result only if it could
\* not be read, and the result a file has is about that file's own chunks
\* whatever became of the other files.
C18_OnlyUnreadableFails ==
    \A f \in Files :
        pc[f] = "done" =>
            /\ readable[f] => task_result[f] # <<>>
            /\ task_result[f] # <<>> =>
                  /\ task_result[f][1].file_path = f
                  /\ posted[f] # <<>> =>
                        LET sections == task_result[f][1].analysis.sections
                        IN  \A k \in 1..Len(sections) : AboutChunk(f, sections[k], k)

\* every file can be read and none is served from the cache
AllMiss ==
    /\ phase # "start"
    /\ \A f \in Files : readable[f] /\ ~StoredHit(f)

C20_GraphHoldsEveryFile ==
    \A f \in Files :
        pc[f] = "done" /\ readable[f] =>
            LET x == extract_imports_and_functions(content[f])
            IN  update_graph(code_graph, f, x.imports, x.functions, x.classes)
                    = code_graph

(* ---------------- the summary of the graph ---------------- *)
\* the files whose extraction went into the graph
Extracted == {f \in Files : <<f, "">> \in DOMAIN code_graph.nodes}

\* C21 (as claimed): once the files are done, the count listed for an import
\* under "Most Common Imports" is the number of processed files whose
\* extraction lists that import.
C21_ImportFrequency ==
    (\A f \in Files : pc[f] = "done") =>
        \A imp \in DOMAIN common_imports(code_graph) :
            common_imports(code_graph)[imp] =
                Cardinality({f \in Extracted :
                    imp[2] \in Range(extract_imports_and_functions(content[f]).imports)})

(* ---------------- the two gates at every call site ---------------- *)
\* the task of f is inside "async with semaphore"
HoldsSlot(f) == pc[f] \in {"rate_limiter", "post"}

\* main() is inside "async with semaphore" of one of its own calls
MainHoldsSlot ==
    phase \in {"cg_rate_limiter", "cg_post", "ga_rate_limiter", "ga_post"}

\* the number of calls posted for the files 1..n
RECURSIVE FilePosts(_)
FilePosts(n) == IF n = 0 THEN 0 ELSE FilePosts(n - 1) + Len(posted[n])

\* the number of calls main() posted itself: the call-graph analysis call
\* and the batch summaries
MainPosts ==
    (IF phase = "cg_post" \/ call_graph_analysis # <<>>
        \/ fatal = "call graph analysis" THEN 1 ELSE 0)
    + Len(global_analysis_results)
    + (IF phase = "ga_post" THEN 1 ELSE 0)

\* C22: a call in flight belongs to a holder of a slot of the one semaphore,
\* whose value accounts for every holder, per-file task or main(); every call
\* posted, at whichever call site, was admitted by the one limiter, whose
\* level never exceeds its capacity.
C22_BothGates ==
    /\ \A f \in Files : pc[f] = "post" => HoldsSlot(f)
    /\ phase \in {"cg_post", "ga_post"} => MainHoldsSlot
    /\ sem_value >= 0
    /\ sem_value = MAX_CONCURRENT_CALLS
                     - Cardinality({f \in Files : HoldsSlot(f)})
                     - (IF MainHoldsSlot THEN 1 ELSE 0)
    /\ admit_count = FilePosts(nfiles) + MainPosts
    /\ level <= CALLS_PER_MINUTE * TIME_PERIOD

\* C22 witness: a task holds a slot and sleeps at the limiter, its call not
\* posted, while slots of the semaphore are free.
C22_Witness ==
    \E f \in Files :
        /\ pc[f] = "rate_limiter"
        /\ wake[f] > now
        /\ posted[f] = <<>>
        /\ ~SemLocked(sem_value)

(* ---------------- the steps of a file and of the run ---------------- *)
\* the cache holds an entry for f that this run wrote
Rewritten(f) ==
    /\ f \in DOMAIN cache
    /\ f \notin DOMAIN loaded \/ cache[f] # loaded[f]

\* C23: for a file that misses the cache the structural facts are in the
\* graph before its first call is posted; its entry is written only when an
\* outcome is recorded for every chunk, with the text combined from them;
\* and it has a result only with that entry written, in memory and on disk.
\* A file that hits the cache makes no call, adds nothing to the graph and
\* leaves its entry alone: its task goes from the comparison to its end.
C23_StepOrder ==
    \A f \in Files :
        /\ posted[f] # <<>> =>
              LET x == extract_imports_and_functions(content[f])
                  nodes == DOMAIN code_graph.nodes
              IN  /\ <<f, "">> \in nodes
                  /\ \A k \in 1..Len(x.imports) : <<0, x.imports[k]>> \in nodes
                  /\ \A k \in 1..Len(x.functions) : <<f, x.functions[k]>> \in nodes
                  /\ \A k \in 1..Len(x.classes) : <<f, x.classes[k]>> \in nodes
        /\ Rewritten(f) =>
              /\ Len(received[f]) = Len(Chunks(f))
              /\ Len(chunk_analyses[f]) = Len(Chunks(f))
              /\ cache[f].analysis.analysis =
                    CombineAnalyses(get_file_type(f), chunk_analyses[f])
        /\ task_result[f] # <<>> /\ posted[f] # <<>> =>
              /\ Rewritten(f)
              /\ cache[f].analysis = task_result[f][1]
              /\ disk.kind = "map" /\ f \in DOMAIN disk.entries
              /\ disk.entries[f] = cache[f]
        /\ readable[f] /\ StoredHit(f) =>
              /\ pc[f] \in {"created", "done"}
              /\ posted[f] = <<>>
              /\ <<f, "">> \notin DOMAIN code_graph.nodes
              /\ cache[f] = loaded[f]

\* C23 witness: a file of two chunks that missed the cache has its result,
\* and a file that hit the cache has its own.
C23_Witness ==
    \E f, g \in Files :
        /\ pc[f] = "done" /\ Len(Chunks(f)) >= 2
        /\ Len(posted[f]) >= 2 /\ task_result[f] # <<>>
        /\ pc[g] = "done" /\ readable[g] /\ StoredHit(g)
        /\ task_result[g] # <<>>

\* C24: main() is at one of its own calls or past them, or has posted one,
\* or has the list of results, only when the task of every file is over.
C24_SecondTierAfterFiles ==
    \/ phase \in {"cg_rate_limiter", "cg_post", "ga_rate_limiter", "ga_post",
                   "output", "done"}
    \/ MainPosts > 0
    \/ results # <<>>
    => \A f \in Files : pc[f] = "done"

\* C24 witness: a batch-summary call is in flight in a run that analysed one
\* file and could not read another.
C24_Witness ==
    /\ phase = "ga_post"
    /\ \E f, g \in Files : posted[f] # <<>> /\ ~readable[g]

(* ---------------- the composition of the graph ---------------- *)
\* the files whose task updates the graph: the readable ones that miss
Updaters == {f \in Files : readable[f] /\ ~StoredHit(f)}

\* what the update of f adds to an empty graph
Contribution(f) ==
    LET x == extract_imports_and_functions(content[f])
    IN  update_graph([nodes |-> <<>>, edges |-> {}], f,
                     x.imports, x.functions, x.classes)

\* the graph after the updates of the files of a sequence, in its order
RECURSIVE ApplyAll(_)
ApplyAll(order) ==
    IF order = <<>> THEN [nodes |-> <<>>, edges |-> {}]
    ELSE LET f == Last(order)
             x == extract_imports_and_functions(content[f])
         IN  update_graph(ApplyAll(SubSeq(order, 1, Len(order) - 1)), f,
                          x.imports, x.functions, x.classes)

\* the orders in which the updates of a set of files can be applied
Orders(S) ==
    {o \in [1..Cardinality(S) -> S] :
        \A i, j \in 1..Cardinality(S) : i # j => o[i] # o[j]}

\* once the files are done the graph is the union of their contributions,
\* and it is what their updates give in any order
UnionOfContributions ==
    (phase # "start" /\ \A f \in Files : pc[f] = "done") =>
        /\ DOMAIN code_graph.nodes =
              UNION {DOMAIN Contribution(f).nodes : f \in Updaters}
        /\ \A f \in Updaters : \A k \in DOMAIN Contribution(f).nodes :
              code_graph.nodes[k] = Contribution(f).nodes[k]
        /\ code_graph.edges = UNION {Contribution(f).edges : f \in Updaters}
        /\ \A o \in Orders(Updaters) : ApplyAll(o) = code_graph

\* a step keeps every node, with its type, and every edge
KeepsGraph ==
    /\ DOMAIN code_graph.nodes \subseteq DOMAIN code_graph'.nodes
    /\ \A k \in DOMAIN code_graph.nodes : code_graph'.nodes[k] = code_graph.nodes[k]
    /\ code_graph.edges \subseteq code_graph'.edges

\* C26: after all file tasks finish the nodes and edges of the combined
\* graph are the union of the contributions of the files that updated it,
\* the same for every order of their updates, and no step removes a node or
\* an edge.
C26_OrderIndependentUnion == []UnionOfContributions /\ [][KeepsGraph]_vars

\* C26 witness: two files that name the same import have both updated the
\* graph and are done.
C26_Witness ==
    /\ \A f \in Files : pc[f] = "done"
    /\ \E f, g \in Updaters :
          /\ f # g
          /\ \E k \in DOMAIN Contribution(f).nodes :
                k \in DOMAIN Contribution(g).nodes

(* ---------------- one attempt per chunk ---------------- *)
\* the cause a failure note gives for a response of the kind
Cause(kind) ==
    CASE kind = "structure" -> "unexpected API response structure"
      [] kind = "status"    -> "API error"
      [] kind = "exception" -> "exception"
      [] OTHER -> ""

\* C27: never more calls are posted for a file than it has chunks and no
\* chunk is posted twice; a file that missed the cache is done after
\* exactly one call per chunk, failed or not, and the note of a failed chunk
\* gives the number of that chunk and the cause of its failure.
C27_NoRetry ==
    \A f \in Files :
        /\ Len(posted[f]) <= Len(Chunks(f))
        /\ \A j, k \in 1..Len(posted[f]) : j # k => posted[f][j] # posted[f][k]
        /\ pc[f] = "done" /\ posted[f] # <<>> =>
              /\ Len(posted[f]) = Len(Chunks(f))
              /\ Len(received[f]) = Len(Chunks(f))
              /\ \A k \in 1..Len(received[f]) :
                    received[f][k] # "ok" =>
                        chunk_analyses[f][k] = FailureNote(k, Cause(received[f][k]))

\* C27 witness: a file of two chunks is done, both of its calls failed.
C27_Witness ==
    \E f \in Files :
        /\ pc[f] = "done"
        /\ Len(Chunks(f)) = 2
        /\ Len(posted[f]) = 2
        /\ received[f][1] # "ok" /\ received[f][2] # "ok"

(* ---------------- the list of results ---------------- *)
\* C30: the list process_files returns holds the results of the files that
\* have one, each once, in the order of discovery, which is the order of the
\* file numbers; the bundle written holds the same list.
C30_DiscoveryOrder ==
    /\ \A i, j \in 1..Len(results) :
          i < j => results[i].file_path < results[j].file_path
    /\ \A i \in 1..Len(results) :
          /\ results[i].file_path \in Files
          /\ task_result[results[i].file_path] = <<results[i]>>
    /\ phase \in {"cg_rate_limiter", "cg_post", "ga_rate_limiter", "ga_post",
                   "output", "done"} =>
          \A f \in Files :
              task_result[f] # <<>> =>
                  \E i \in 1..Len(results) : results[i] = task_result[f][1]
    /\ output # <<>> => output[1].file_analyses = results

\* C30 witness: the bundle is written with the results of two files of which
\* the later, served from the cache, was done before the earlier, which was
\* analysed.
C30_Witness ==
    /\ output # <<>>
    /\ \E f, g \in Files :
          /\ f < g
          /\ posted[f] # <<>> /\ task_result[f] # <<>>
          /\ StoredHit(g) /\ posted[g] = <<>> /\ task_result[g] # <<>>

(* ---------------- the batches of the second pass ---------------- *)
\* C25: the results are cut, in order, into ceil(n / CHUNK_SIZE) batches of
\* 1 to CHUNK_SIZE results that together are the list; the batches are
\* called for one at a time in their order, one call each; the outcome
\* recorded for batch k carries the number k, and, when the call succeeded,
\* answers the digest of that batch; and the global analysis written has one
\* section per batch, numbered as the batch.
C25_Batching ==
    LET n == Len(results)
        nb == NumBatches(n)
        posts == Len(global_analysis_results) + (IF phase = "ga_post" THEN 1 ELSE 0)
    IN  /\ (nb - 1) * CHUNK_SIZE < n /\ n <= nb * CHUNK_SIZE
        /\ \A b \in 1..nb : Len(BatchOf(results, b)) \in 1..CHUNK_SIZE
        /\ Concat([b \in 1..nb |-> BatchOf(results, b)]) = results
        /\ posts <= nb
        /\ phase \in {"ga_rate_limiter", "ga_post"} =>
              /\ Len(global_analysis_results) = batch - 1
              /\ batch \in 1..nb
        /\ phase \in {"output", "done"} => posts = nb
        /\ \A k \in 1..Len(global_analysis_results) :
              LET body == global_analysis_results[k]
              IN  /\ body.idx = k
                  /\ body.kind = "reply" =>
                        body.about = Digest(BatchOf(results, k))
        /\ output # <<>> =>
              LET sections == output[1].global_analysis.sections
              IN  /\ Len(sections) = nb
                  /\ \A k \in 1..nb :
                        sections[k].n = k /\ sections[k].body.idx = k

\* C25 witness: the global analysis of a run with two batches or more is
\* written, the call of one batch having failed and that of another succeeded.
C25_Witness ==
    /\ output # <<>>
    /\ NumBatches(Len(results)) >= 2
    /\ \E j, k \in 1..Len(global_analysis_results) :
          /\ global_analysis_results[j].kind = "failed"
          /\ global_analysis_results[k].kind = "reply"

(* ---------------- the cache after failed calls ---------------- *)
\* C29: a file that missed the cache has, when its chunk loop is over, a
\* result and an entry with the hash of its content and that result, in
\* memory and on disk, whatever the outcomes of its calls; in a run after it
\* the file, unchanged, is found in the cache, no call is issued for it and
\* its result is the stored one.
C29_FailedAnalysisCached ==
    \A f \in Files :
        /\ pc[f] = "done" /\ posted[f] # <<>> =>
              /\ task_result[f] # <<>>
              /\ f \in DOMAIN cache
              /\ cache[f] = [hash |-> file_hash(content[f]),
                             analysis |-> task_result[f][1]]
              /\ disk.kind = "map" /\ f \in DOMAIN disk.entries
              /\ disk.entries[f] = cache[f]
        /\ run > 1 /\ readable[f] =>
              /\ posted[f] = <<>>
              /\ phase # "start" => StoredHit(f)
              /\ pc[f] = "done" => task_result[f] = <<loaded[f].analysis>>

\* C29 witness: in a second run a file of two chunks is served from the
\* cache a text all of whose sections are notes of failure.
C29_Witness ==
    /\ run = 2
    /\ \E f \in Files :
          /\ pc[f] = "done" /\ posted[f] = <<>> /\ task_result[f] # <<>>
          /\ LET sections == task_result[f][1].analysis.sections
             IN  /\ Len(sections) >= 2
                 /\ \A k \in 1..Len(sections) : sections[k].body.kind = "failed"

(* ---------------- progress ---------------- *)
\* a task sleeps at the limiter with a slot of the semaphore while other
\* tasks wait for a slot
SleepsOnSlot ==
    /\ sem_waiters # <<>>
    /\ \E f \in Files : pc[f] = "rate_limiter" /\ wake[f] > now

C31_HitHasNoEffect ==
    [][\A f \in Files :
          pc[f] = "created" /\ pc'[f] # "created" /\ readable[f] /\ StoredHit(f)
              => /\ pc'[f] = "done"
                 /\ cache' = cache
                 /\ disk' = disk
                 /\ code_graph' = code_graph]_vars

\* C31 witness: a file was served from the cache after another file, which
\* missed it, had put its facts in the graph and its entry in the cache; the
\* graph holds nothing of the file served.
C31_Witness ==
    \E f, g \in Files :
        /\ g < f
        /\ pc[g] = "done" /\ posted[g] # <<>> /\ Rewritten(g)
        /\ <<g, "">> \in DOMAIN code_graph.nodes
        /\ pc[f] = "done" /\ readable[f] /\ StoredHit(f)
        /\ posted[f] = <<>>
        /\ cache[f] = loaded[f]
        /\ <<f, "">> \notin DOMAIN code_graph.nodes

(* ---------------- empty chunks ---------------- *)
\* C32: for every content that is not empty and every budget, every chunk
\* split_content returns holds at least one line, also when the first line
\* alone is longer than the budget.
C32_NoEmptyChunk ==
    split_chunks # <<>> /\ TextLen(split_lines) > 0 =>
        \A k \in 1..Len(split_chunks[1]) : split_chunks[1][k] # <<>>

====
